---- MODULE Spec2Model ----
(***************************************************************************)
(* Model of the screen-mirroring shell of code.py: the drag/resize state   *)
(* machine of DragResizeWidget and its three subclasses, and the address   *)
(* list kept in config.ini (read_urls_from_config, write_url_to_config,    *)
(* UrlSelectionDialog).                                                    *)
(*                                                                         *)
(* Strings are sequences of one-character strings, so that str.strip, the  *)
(* splitting of the file into lines and the "\n" appended by a write are   *)
(* computed rather than assumed.                                           *)
(***************************************************************************)
EXTENDS Integers, Sequences, FiniteSets, TLC

VARIABLES
    kind,           \* per surface slot: "none", "browser", "image", "video"
    x, y,           \* QWidget.x(), QWidget.y() of each surface
    width, height,  \* QWidget.width(), QWidget.height() of each surface
    dragging,       \* DragResizeWidget.dragging
    resizing,       \* DragResizeWidget.resizing
    drag_position,  \* DragResizeWidget.drag_position
    geometry,       \* geometry of the payload (browser / label / video_widget)
    ev,             \* the event whose handler ran last
    geomCalls,      \* update_content_geometry calls made by the last handler
    config,         \* config.ini: whether it exists, and its characters
    urls,           \* UrlSelectionDialog.urls
    url_combobox,   \* items of UrlSelectionDialog.url_combobox
    dialog,         \* "closed" before setup_ui has run, "open" after
    addLog,         \* the answers QInputDialog.getText gave to add_url so far
    gesture,        \* per surface: where the drag gesture under way began
    shell,          \* FullScreenApp: "running", or "closed" after close()
    stack,          \* the surfaces of the shell in z-order, lowest first
    stackUnderCalls, \* stackUnder calls made by FullScreenApp.__init__
    reloadCalls,    \* browser.reload() calls made by the last handler
    playbackState,  \* QMediaPlayer.playbackState() of VideoWidget.player
    position,       \* QMediaPlayer.position() of VideoWidget.player
    stopCalls,      \* player.stop() calls made so far
    endCount        \* EndOfMedia notifications handled so far

surfaceVars == <<kind, x, y, width, height, dragging, resizing, drag_position,
                 geometry, ev, geomCalls>>
storeVars == <<config, urls, url_combobox, dialog, addLog>>
windowVars == <<shell, stack, stackUnderCalls>>
playerVars == <<playbackState, position, stopCalls, endCount>>
shellVars == <<gesture, shell, stack, stackUnderCalls, reloadCalls,
               playbackState, position, stopCalls, endCount>>
vars == <<kind, x, y, width, height, dragging, resizing, drag_position,
          geometry, ev, geomCalls, config, urls, url_combobox, dialog, addLog,
          gesture, shell, stack, stackUnderCalls, reloadCalls,
          playbackState, position, stopCalls, endCount>>

(***************************************************************************)
(* Bounds and input sets                                                   *)
(***************************************************************************)
\* a drag is followed while the origin stays this close to where setup put it
MaxDrag == 40
\* longest config.ini content the store starts from
InitFileLen == 3
\* longest config.ini content read_urls_from_config is applied to on its own
MaxContentLen == 7
\* number of add_url invocations followed
MaxAdds == 3

Slots == {"media_window", "browser_window"}
Buttons == {"LeftButton", "RightButton"}
\* event.pos(): positions in the surface's own coordinates
LocalPoints ==
    {<<-50, -50>>, <<95, 95>>, <<400, 300>>, <<795, 300>>, <<795, 595>>,
     <<5000, 5000>>}
\* event.globalPosition().toPoint()
GlobalPoints == {<<0, 0>>, <<30, 0>>, <<0, 40>>}
NoEvent == [type |-> "none", target |-> "none", button |-> "none",
            pos |-> <<0, 0>>, globalPosition |-> <<0, 0>>,
            key |-> "none", status |-> "none"]
\* no plain drag gesture (down outside the corner on an Idle surface, then
\* moves) is under way
NoGesture == [open |-> FALSE, start |-> <<0, 0>>, origin |-> <<0, 0>>]

Range(s) == {s[i] : i \in 1..Len(s)}
Max(a, b) == IF a >= b THEN a ELSE b
Abs(a) == IF a >= 0 THEN a ELSE -a

(***************************************************************************)
(* DragResizeWidget and its subclasses                                     *)
(***************************************************************************)
InitialWidth == 800
InitialHeight == 600
ResizeMargin == 10
MinSize == 100
Inset == 5

\* where FullScreenApp.setup_media / setup_browser move the new widget
InitialOrigin(s) == IF s = "media_window" THEN <<50, 50>> ELSE <<150, 150>>

BrowserWidget_update_content_geometry(w, h) == <<Inset, Inset, w - 2 * Inset, h - 2 * Inset>>
ImageWidget_update_content_geometry(w, h) == <<Inset, Inset, w - 2 * Inset, h - 2 * Inset>>
\* a payload inset on the left and top only
VideoWidget_update_content_geometry_half(w, h) == <<Inset, Inset, w - Inset, h - Inset>>

VideoWidget_update_content_geometry(w, h) == <<Inset, Inset, w - 2 * Inset, h - 2 * Inset>>

\* dynamic dispatch of self.update_content_geometry()
update_content_geometry(k, w, h) ==
    CASE k = "browser" -> BrowserWidget_update_content_geometry(w, h)
      [] k = "image" -> ImageWidget_update_content_geometry(w, h)
      [] k = "video" -> VideoWidget_update_content_geometry(w, h)

\* the payload geometry each constructor leaves behind
ConstructedGeometry(k) ==
    CASE k = "browser" -> BrowserWidget_update_content_geometry(InitialWidth, InitialHeight)
      [] k = "image" -> ImageWidget_update_content_geometry(InitialWidth, InitialHeight)
      [] k = "video" -> <<5, 5, InitialWidth - 10, InitialHeight - 10>>
      [] OTHER -> <<0, 0, 0, 0>>

\* the corner test made against the constructed size
is_on_border_initial(s, pos) ==
    /\ pos[1] >= InitialWidth - ResizeMargin
    /\ pos[2] >= InitialHeight - ResizeMargin

is_on_border(s, pos) ==
    /\ pos[1] >= width[s] - ResizeMargin
    /\ pos[2] >= height[s] - ResizeMargin

\* a resize that follows the pointer without the floor
new_width_unclamped(pos) == pos[1]

new_width(pos) == Max(MinSize, pos[1])

\* a height taken from the pointer's x coordinate
new_height_from_x(pos) == Max(MinSize, pos[1])

new_height(pos) == Max(MinSize, pos[2])

MouseEvent(type, s, button, pos, gpos) ==
    [type |-> type, target |-> s, button |-> button, pos |-> pos,
     globalPosition |-> gpos, key |-> "none", status |-> "none"]

\* the drag gesture a press leaves under way: a left press outside the corner
\* on an Idle surface opens one, any other left press leaves none
GestureAfterPress(s, button, pos, gpos) ==
    IF button = "LeftButton"
    THEN IF ~dragging[s] /\ ~resizing[s] /\ ~is_on_border(s, pos)
         THEN [open |-> TRUE, start |-> gpos, origin |-> <<x[s], y[s]>>]
         ELSE NoGesture
    ELSE gesture[s]

\* what a pointer handler leaves alone outside the surfaces
PointerFrame ==
    /\ reloadCalls' = 0
    /\ UNCHANGED windowVars
    /\ UNCHANGED playerVars
    /\ UNCHANGED storeVars

mousePressEvent(s, button, pos, gpos) ==
    /\ shell = "running"
    /\ kind[s] # "none"
    /\ ev' = MouseEvent("press", s, button, pos, gpos)
    /\ geomCalls' = 0
    /\ IF button = "LeftButton"
       THEN IF is_on_border(s, pos)
            THEN /\ resizing' = [resizing EXCEPT ![s] = TRUE]
                 /\ UNCHANGED <<dragging, drag_position>>
            ELSE /\ dragging' = [dragging EXCEPT ![s] = TRUE]
                 /\ drag_position' = [drag_position EXCEPT ![s] = gpos]
                 /\ UNCHANGED resizing
       ELSE UNCHANGED <<dragging, resizing, drag_position>>
    /\ UNCHANGED <<kind, x, y, width, height, geometry>>
    /\ gesture' = [gesture EXCEPT ![s] = GestureAfterPress(s, button, pos, gpos)]
    /\ PointerFrame

\* a drag step that forgets to record the pointer position
drag_move_keep_pointer(s, gpos) ==
    LET dx == gpos[1] - drag_position[s][1]
        dy == gpos[2] - drag_position[s][2]
    IN  /\ Abs(x[s] + dx - InitialOrigin(s)[1]) <= MaxDrag
        /\ Abs(y[s] + dy - InitialOrigin(s)[2]) <= MaxDrag
        /\ x' = [x EXCEPT ![s] = x[s] + dx]
        /\ y' = [y EXCEPT ![s] = y[s] + dy]
        /\ UNCHANGED drag_position

\* the drag branch of mouseMoveEvent
drag_move(s, gpos) ==
    LET dx == gpos[1] - drag_position[s][1]
        dy == gpos[2] - drag_position[s][2]
    IN  /\ Abs(x[s] + dx - InitialOrigin(s)[1]) <= MaxDrag
        /\ Abs(y[s] + dy - InitialOrigin(s)[2]) <= MaxDrag
        /\ x' = [x EXCEPT ![s] = x[s] + dx]
        /\ y' = [y EXCEPT ![s] = y[s] + dy]
        /\ drag_position' = [drag_position EXCEPT ![s] = gpos]

\* a move handler whose resize branch is an "if", not an "elif"
mouseMoveEvent_both_branches(s, button, pos, gpos) ==
    /\ shell = "running"
    /\ kind[s] # "none"
    /\ ev' = MouseEvent("move", s, button, pos, gpos)
    /\ IF dragging[s]
       THEN drag_move(s, gpos)
       ELSE UNCHANGED <<x, y, drag_position>>
    /\ IF resizing[s]
       THEN /\ width' = [width EXCEPT ![s] = new_width(pos)]
            /\ height' = [height EXCEPT ![s] = new_height(pos)]
            /\ geometry' = [geometry EXCEPT ![s] =
                   update_content_geometry(kind[s], width'[s], height'[s])]
            /\ geomCalls' = 1
       ELSE /\ geomCalls' = 0
            /\ UNCHANGED <<width, height, geometry>>
    /\ UNCHANGED <<kind, dragging, resizing>>
    /\ UNCHANGED gesture
    /\ PointerFrame

\* a move handler whose resize branch does not test self.resizing
mouseMoveEvent_always_resize(s, button, pos, gpos) ==
    /\ shell = "running"
    /\ kind[s] # "none"
    /\ ev' = MouseEvent("move", s, button, pos, gpos)
    /\ IF dragging[s]
       THEN /\ drag_move(s, gpos)
            /\ geomCalls' = 0
            /\ UNCHANGED <<width, height, geometry>>
       ELSE /\ width' = [width EXCEPT ![s] = new_width(pos)]
            /\ height' = [height EXCEPT ![s] = new_height(pos)]
            /\ geometry' = [geometry EXCEPT ![s] =
                   update_content_geometry(kind[s], width'[s], height'[s])]
            /\ geomCalls' = 1
            /\ UNCHANGED <<x, y, drag_position>>
    /\ UNCHANGED <<kind, dragging, resizing>>
    /\ UNCHANGED gesture
    /\ PointerFrame

mouseMoveEvent(s, button, pos, gpos) ==
    /\ shell = "running"
    /\ kind[s] # "none"
    /\ ev' = MouseEvent("move", s, button, pos, gpos)
    /\ IF dragging[s]
       THEN /\ drag_move(s, gpos)
            /\ geomCalls' = 0
            /\ UNCHANGED <<width, height, geometry>>
       ELSE IF resizing[s]
            THEN /\ width' = [width EXCEPT ![s] = new_width(pos)]
                 /\ height' = [height EXCEPT ![s] = new_height(pos)]
                 /\ geometry' = [geometry EXCEPT ![s] =
                        update_content_geometry(kind[s], width'[s], height'[s])]
                 /\ geomCalls' = 1
                 /\ UNCHANGED <<x, y, drag_position>>
            ELSE /\ geomCalls' = 0
                 /\ UNCHANGED <<x, y, width, height, geometry, drag_position>>
    /\ UNCHANGED <<kind, dragging, resizing>>
    /\ UNCHANGED gesture
    /\ PointerFrame

\* a release handler that ends the interaction of every surface
mouseReleaseEvent_all_surfaces(s, button, pos, gpos) ==
    /\ shell = "running"
    /\ kind[s] # "none"
    /\ ev' = MouseEvent("release", s, button, pos, gpos)
    /\ geomCalls' = 0
    /\ dragging' = [o \in Slots |-> FALSE]
    /\ resizing' = [o \in Slots |-> FALSE]
    /\ UNCHANGED <<kind, x, y, width, height, geometry, drag_position>>
    /\ gesture' = [gesture EXCEPT ![s] = NoGesture]
    /\ PointerFrame

\* a release handler that ends a drag but not a resize
mouseReleaseEvent_drag_only(s, button, pos, gpos) ==
    /\ shell = "running"
    /\ kind[s] # "none"
    /\ ev' = MouseEvent("release", s, button, pos, gpos)
    /\ geomCalls' = 0
    /\ dragging' = [dragging EXCEPT ![s] = FALSE]
    /\ UNCHANGED resizing
    /\ UNCHANGED <<kind, x, y, width, height, geometry, drag_position>>
    /\ gesture' = [gesture EXCEPT ![s] = NoGesture]
    /\ PointerFrame

mouseReleaseEvent(s, button, pos, gpos) ==
    /\ shell = "running"
    /\ kind[s] # "none"
    /\ ev' = MouseEvent("release", s, button, pos, gpos)
    /\ geomCalls' = 0
    /\ dragging' = [dragging EXCEPT ![s] = FALSE]
    /\ resizing' = [resizing EXCEPT ![s] = FALSE]
    /\ UNCHANGED <<kind, x, y, width, height, geometry, drag_position>>
    /\ gesture' = [gesture EXCEPT ![s] = NoGesture]
    /\ PointerFrame

(***************************************************************************)
(* FullScreenApp: z-order, keys, and the player of a video surface         *)
(***************************************************************************)
\* length of the video, in position steps
Duration == 2
\* number of EndOfMedia notifications followed
MaxEnds == 3

Keys == {"Key_F12", "Key_F5", "Key_A"}
MediaStatuses == {"LoadedMedia", "BufferedMedia", "StalledMedia", "EndOfMedia"}

\* the children of the shell in the order setup_media and setup_browser
\* create them: a new child is put on top of its siblings
CreatedStack(k) ==
    (IF k["media_window"] # "none" THEN <<"media_window">> ELSE <<>>)
    \o (IF k["browser_window"] # "none" THEN <<"browser_window">> ELSE <<>>)

Without(seq, w) == SelectSeq(seq, LAMBDA e : e # w)
IndexIn(seq, w) == CHOOSE i \in 1..Len(seq) : seq[i] = w

\* QWidget.stackUnder: w is put just below its sibling
stackUnder(seq, w, sibling) ==
    LET rest == Without(seq, w)
        i == IndexIn(rest, sibling)
    IN  SubSeq(rest, 1, i - 1) \o <<w>> \o SubSeq(rest, i, Len(rest))

\* a stacking the wrong way round: the browser put under the media
adjust_window_stack_swapped(k, seq) ==
    IF k["media_window"] # "none" /\ k["browser_window"] # "none"
    THEN stackUnder(seq, "browser_window", "media_window")
    ELSE seq

adjust_window_stack(k, seq) ==
    IF k["media_window"] # "none" /\ k["browser_window"] # "none"
    THEN stackUnder(seq, "media_window", "browser_window")
    ELSE seq

\* stackUnder calls adjust_window_stack makes
adjust_window_stack_calls(k) ==
    IF k["media_window"] # "none" /\ k["browser_window"] # "none" THEN 1 ELSE 0

\* FullScreenApp.__init__ after the surfaces k are made; load_video has
\* started the player of a video surface
ShellConstructed(k) ==
    /\ shell = "running"
    /\ stack = adjust_window_stack(k, CreatedStack(k))
    /\ stackUnderCalls = adjust_window_stack_calls(k)
    /\ reloadCalls = 0
    /\ playbackState = IF k["media_window"] = "video" THEN "PlayingState" ELSE "StoppedState"
    /\ position = 0
    /\ stopCalls = 0
    /\ endCount = 0

\* DragResizeWidget.__init__ followed by the subclass constructor and the
\* move() of setup_media / setup_browser, for the slots that hold a surface
ConstructSurfaces(k) ==
    /\ kind = k
    /\ x = [s \in Slots |-> InitialOrigin(s)[1]]
    /\ y = [s \in Slots |-> InitialOrigin(s)[2]]
    /\ width = [s \in Slots |-> InitialWidth]
    /\ height = [s \in Slots |-> InitialHeight]
    /\ dragging = [s \in Slots |-> FALSE]
    /\ resizing = [s \in Slots |-> FALSE]
    /\ drag_position = [s \in Slots |-> <<0, 0>>]
    /\ geometry = [s \in Slots |-> ConstructedGeometry(k[s])]
    /\ ev = NoEvent
    /\ geomCalls = 0
    /\ gesture = [s \in Slots |-> NoGesture]
    /\ ShellConstructed(k)

\* config.ini and the dialog, before anything of the store has run
StoreIdle ==
    /\ config = [exists |-> FALSE, content |-> <<>>]
    /\ urls = <<>>
    /\ url_combobox = <<>>
    /\ dialog = "closed"
    /\ addLog = <<>>

\* a shell that holds one surface, of any of the three kinds
OneSurface ==
    {[media_window |-> "image", browser_window |-> "none"],
     [media_window |-> "video", browser_window |-> "none"],
     [media_window |-> "none", browser_window |-> "browser"]}

Init ==
    /\ \E k \in OneSurface : ConstructSurfaces(k)
    /\ StoreIdle

\* Qt reports the button that changed for a press and a release, and
\* NoButton for a move.  The release handler reads none of the event's
\* fields and the press handler none for another button than the left one,
\* so these events are drawn at fewer positions.
Next ==
    \/ \E s \in Slots, pos \in LocalPoints, gpos \in GlobalPoints :
          \/ mousePressEvent(s, "LeftButton", pos, gpos)
          \/ mouseMoveEvent(s, "NoButton", pos, gpos)
    \/ \E s \in Slots, pos \in LocalPoints :
          mousePressEvent(s, "RightButton", pos, <<0, 0>>)
    \/ \E s \in Slots, button \in Buttons :
          mouseReleaseEvent(s, button, <<400, 300>>, <<0, 0>>)

Spec == Init /\ [][Next]_vars

(***************************************************************************)
(* FullScreenApp in the Running phase: keys, and the video player          *)
(***************************************************************************)
KeyEvent(key) ==
    [type |-> "key", target |-> "shell", button |-> "none", pos |-> <<0, 0>>,
     globalPosition |-> <<0, 0>>, key |-> key, status |-> "none"]

StatusEvent(s, status) ==
    [type |-> "status", target |-> s, button |-> "none", pos |-> <<0, 0>>,
     globalPosition |-> <<0, 0>>, key |-> "none", status |-> status]

\* a step of the player or of Qt that runs no handler of code.py but the one
\* named
OtherEvent(type, s) ==
    [type |-> type, target |-> s, button |-> "none", pos |-> <<0, 0>>,
     globalPosition |-> <<0, 0>>, key |-> "none", status |-> "none"]

\* what a handler of the shell or of the player leaves alone
SurfaceFrame ==
    /\ UNCHANGED <<kind, x, y, width, height, dragging, resizing, drag_position,
                   geometry, gesture>>
    /\ UNCHANGED <<stack, stackUnderCalls>>
    /\ UNCHANGED storeVars

\* a key handler that reloads without testing self.browser_window
keyPressEvent_reload_unguarded(key) ==
    /\ shell = "running"
    /\ ev' = KeyEvent(key)
    /\ geomCalls' = 0
    /\ IF key = "Key_F12"
       THEN /\ shell' = "closed"
            /\ reloadCalls' = 0
       ELSE IF key = "Key_F5"
            THEN /\ reloadCalls' = 1
                 /\ UNCHANGED shell
            ELSE /\ reloadCalls' = 0
                 /\ UNCHANGED shell
    /\ UNCHANGED playerVars
    /\ SurfaceFrame

\* FullScreenApp.keyPressEvent.  self.close() closes the main window: Qt
\* sends the QCloseEvent to the widget that is closed, not to its children,
\* so the closeEvent of a surface is not run by it.
keyPressEvent(key) ==
    /\ shell = "running"
    /\ ev' = KeyEvent(key)
    /\ geomCalls' = 0
    /\ IF key = "Key_F12"
       THEN /\ shell' = "closed"
            /\ reloadCalls' = 0
       ELSE IF key = "Key_F5" /\ kind["browser_window"] # "none"
            THEN /\ reloadCalls' = 1
                 /\ UNCHANGED shell
            ELSE /\ reloadCalls' = 0
                 /\ UNCHANGED shell
    /\ UNCHANGED playerVars
    /\ SurfaceFrame

\* VideoWidget.closeEvent.  It runs when the video surface itself is closed;
\* code.py never calls close() on a surface and a frameless child widget has
\* no close control, so no step of the specifications below takes it.
VideoWidget_closeEvent(s) ==
    /\ kind[s] = "video"
    /\ ev' = OtherEvent("close", s)
    /\ stopCalls' = stopCalls + 1
    /\ playbackState' = "StoppedState"
    /\ UNCHANGED <<position, endCount, shell, reloadCalls, geomCalls>>
    /\ SurfaceFrame

\* the player plays on: the position advances up to the end of the video
player_advance(s) ==
    /\ shell = "running"
    /\ kind[s] = "video"
    /\ playbackState = "PlayingState"
    /\ position < Duration
    /\ position' = position + 1
    /\ ev' = OtherEvent("progress", s)
    /\ UNCHANGED <<playbackState, stopCalls, endCount, shell, reloadCalls,
                   geomCalls>>
    /\ SurfaceFrame

\* an end-of-media handler that rewinds but does not play
handle_media_status_no_play(s, status) ==
    /\ shell = "running"
    /\ kind[s] = "video"
    /\ status = "EndOfMedia" =>
          /\ playbackState = "PlayingState"
          /\ position = Duration
          /\ endCount < MaxEnds
    /\ ev' = StatusEvent(s, status)
    /\ IF status = "EndOfMedia"
       THEN /\ position' = 0
            /\ playbackState' = "StoppedState"
            /\ endCount' = endCount + 1
       ELSE UNCHANGED <<position, playbackState, endCount>>
    /\ geomCalls' = 0
    /\ reloadCalls' = 0
    /\ UNCHANGED <<stopCalls, shell>>
    /\ SurfaceFrame

\* QMediaPlayer.mediaStatusChanged delivered to VideoWidget.handle_media_status.
\* The player reports EndOfMedia when playback has reached the end of the
\* video and it has stopped there; the slot runs inside that notification.
handle_media_status(s, status) ==
    /\ shell = "running"
    /\ kind[s] = "video"
    /\ status = "EndOfMedia" =>
          /\ playbackState = "PlayingState"
          /\ position = Duration
          /\ endCount < MaxEnds
    /\ ev' = StatusEvent(s, status)
    /\ IF status = "EndOfMedia"
       THEN /\ position' = 0
            /\ playbackState' = "PlayingState"
            /\ endCount' = endCount + 1
       ELSE UNCHANGED <<position, playbackState, endCount>>
    /\ geomCalls' = 0
    /\ reloadCalls' = 0
    /\ UNCHANGED <<stopCalls, shell>>
    /\ SurfaceFrame

\* every outcome of setup_media and setup_browser
Shells ==
    [media_window : {"none", "image", "video"}, browser_window : {"none", "browser"}]

\* pointer inputs of the two-surface specification
ShellLocalPoints == {<<400, 300>>, <<795, 595>>}
ShellGlobalPoints == {<<0, 0>>, <<30, 0>>}

InitShell ==
    /\ \E k \in Shells : ConstructSurfaces(k)
    /\ StoreIdle

NextShell ==
    \/ \E s \in Slots, pos \in ShellLocalPoints, gpos \in ShellGlobalPoints :
          \/ mousePressEvent(s, "LeftButton", pos, gpos)
          \/ mouseMoveEvent(s, "NoButton", pos, gpos)
    \/ \E s \in Slots : mouseReleaseEvent(s, "LeftButton", <<400, 300>>, <<0, 0>>)
    \/ \E key \in Keys : keyPressEvent(key)

SpecShell == InitShell /\ [][NextShell]_vars

\* a shell with a video surface, its player and the keys
VideoShells == {k \in Shells : k["media_window"] = "video"}

InitVideo ==
    /\ \E k \in VideoShells : ConstructSurfaces(k)
    /\ StoreIdle

NextVideo ==
    \/ \E s \in Slots : player_advance(s)
    \/ \E s \in Slots, status \in MediaStatuses : handle_media_status(s, status)
    \/ \E key \in Keys : keyPressEvent(key)

SpecVideo == InitVideo /\ [][NextVideo]_vars

(***************************************************************************)
(* Properties of the drag/resize state machine (specification Spec)        *)
(***************************************************************************)
Surfaces == {s \in Slots : kind[s] # "none"}
Idle(s) == ~dragging[s] /\ ~resizing[s]
Dragging(s) == dragging[s] /\ ~resizing[s]
Resizing(s) == resizing[s] /\ ~dragging[s]

\* C1: in every reachable state the dragging and resizing flags of a surface
\* are never both true, so the surface is in exactly one of Idle, Dragging,
\* Resizing.
C1_ExactlyOneState ==
    \A s \in Surfaces : ~(dragging[s] /\ resizing[s])

\* C2: in every reachable state, whatever pointer coordinates were delivered,
\* the width and the height of a surface are at least 100.
C2_SizeFloor ==
    \A s \in Surfaces : width[s] >= 100 /\ height[s] >= 100

\* a resize move at a negative position has been clamped to the floor
C2_Witness ==
    /\ ev.type = "move"
    /\ ev.pos = <<-50, -50>>
    /\ geomCalls = 1
    /\ width[ev.target] = 100
    /\ height[ev.target] = 100

\* C3: in every reachable state, for each surface kind, the payload rectangle
\* is (5, 5, width-10, height-10) of the current surface size.
C3_InsetRectangle ==
    \A s \in Surfaces :
        geometry[s] = <<5, 5, width[s] - 10, height[s] - 10>>

\* a video surface whose size a resize move has changed
C3_Witness ==
    /\ ev.type = "move"
    /\ geomCalls = 1
    /\ kind[ev.target] = "video"
    /\ width[ev.target] = 795
    /\ height[ev.target] = 300
    /\ geometry[ev.target] = <<5, 5, 785, 290>>

\* the corner test of the claim, written against the current size
InCorner(s, pos) == pos[1] >= width[s] - 10 /\ pos[2] >= height[s] - 10

\* what C4 says a pointer-down on an Idle surface does
PressOutcome(s) ==
    IF InCorner(s, ev'.pos)
    THEN /\ resizing'[s] /\ ~dragging'[s]
         /\ drag_position'[s] = drag_position[s]
    ELSE /\ dragging'[s] /\ ~resizing'[s]
         /\ drag_position'[s] = ev'.globalPosition

\* C4 as stated: every pointer-down on an Idle surface enters Resizing when
\* the position is in the bottom-right corner of the current size, and
\* otherwise enters Dragging with lastPointer the global position.
C4_AnyButtonPress ==
    [][(ev'.type = "press" /\ Idle(ev'.target)) => PressOutcome(ev'.target)]_vars

\* C4 amended: a left-button pointer-down on an Idle surface does so; a
\* pointer-down of another button leaves the surface Idle and lastPointer as
\* it was.
C4_LeftButtonPress ==
    [][(ev'.type = "press" /\ Idle(ev'.target)) =>
        IF ev'.button = "LeftButton"
        THEN PressOutcome(ev'.target)
        ELSE /\ ~dragging'[ev'.target] /\ ~resizing'[ev'.target]
             /\ drag_position'[ev'.target] = drag_position[ev'.target]]_vars

\* a surface resized to (100,100), then released, where a left press at
\* (95,95), outside the corner of the constructed size, started a resize
C4_Witness ==
    /\ ev.type = "press"
    /\ ev.button = "LeftButton"
    /\ ev.pos = <<95, 95>>
    /\ width[ev.target] = 100
    /\ height[ev.target] = 100
    /\ Resizing(ev.target)

\* C5: a pointer-down on a surface that is not Idle changes neither the
\* interaction state nor lastPointer, origin or size.
C5_PressWhileBusyNoOp ==
    [][(ev'.type = "press" /\ ~Idle(ev'.target)) =>
        UNCHANGED <<dragging, resizing, drag_position, x, y, width, height>>]_vars

\* C6: a pointer-up of any button leaves the surface Idle, and the
\* pointer-move that follows a pointer-up changes neither origin nor size.
C6_ReleaseToIdle ==
    [][/\ ev'.type = "release" =>
              ~dragging'[ev'.target] /\ ~resizing'[ev'.target]
       /\ (ev.type = "release" /\ ev'.type = "move" /\ ev'.target = ev.target) =>
              UNCHANGED <<x, y, width, height>>]_vars

\* a right-button release has ended an interaction of a surface that had
\* been dragged and resized
C6_Witness ==
    /\ ev.type = "release"
    /\ ev.button = "RightButton"
    /\ Idle(ev.target)
    /\ width[ev.target] # InitialWidth
    /\ x[ev.target] # InitialOrigin(ev.target)[1]

\* C7: a pointer-move on an Idle surface changes neither origin, size,
\* lastPointer, interaction state nor payload rectangle, and makes no
\* content-geometry call.
C7_IdleMoveNoOp ==
    [][(ev'.type = "move" /\ Idle(ev'.target)) =>
        /\ UNCHANGED <<x, y, width, height, drag_position, dragging, resizing,
                       geometry>>
        /\ geomCalls' = 0]_vars

\* a move at a far position handled by an Idle surface that kept the size an
\* earlier resize gave it
C7_Witness ==
    /\ ev.type = "move"
    /\ ev.pos = <<5000, 5000>>
    /\ Idle(ev.target)
    /\ geomCalls = 0
    /\ width[ev.target] = 400
    /\ height[ev.target] = 300

\* C15: a pointer-move at global p handled as a drag sets origin to
\* origin + (p - lastPointer) and lastPointer to p; so during and at the end
\* of a gesture (down at p0 outside the corner on an Idle surface, moves, up)
\* the origin is the origin at the down plus (last position - p0).
C15_DragLaw ==
    [][LET s == ev'.target
           p == ev'.globalPosition
       IN  /\ (ev'.type = "move" /\ dragging[s]) =>
                  /\ x'[s] = x[s] + (p[1] - drag_position[s][1])
                  /\ y'[s] = y[s] + (p[2] - drag_position[s][2])
                  /\ drag_position'[s] = p
           /\ (ev'.type \in {"move", "release"} /\ gesture[s].open) =>
                  /\ x'[s] = gesture[s].origin[1]
                               + (drag_position'[s][1] - gesture[s].start[1])
                  /\ y'[s] = gesture[s].origin[2]
                               + (drag_position'[s][2] - gesture[s].start[2])]_vars

\* a gesture begun at global (30,0) has reached (0,40) and carried the
\* surface by (-30,+40)
C15_Witness ==
    /\ ev.type = "move"
    /\ gesture[ev.target].open
    /\ gesture[ev.target].start = <<30, 0>>
    /\ drag_position[ev.target] = <<0, 40>>
    /\ x[ev.target] = gesture[ev.target].origin[1] - 30
    /\ y[ev.target] = gesture[ev.target].origin[2] + 40

\* C16: a pointer-move handled as a drag changes only origin and lastPointer:
\* size, payload rectangle and interaction flags stay, and no content-geometry
\* call is made.
C16_DragMoveFrame ==
    [][(ev'.type = "move" /\ dragging[ev'.target]) =>
        /\ UNCHANGED <<width, height, geometry, dragging, resizing>>
        /\ geomCalls' = 0]_vars

\* a surface resized to (400,300) earlier has been dragged away from where
\* setup put it, with its size and payload rectangle kept
C16_Witness ==
    /\ ev.type = "move"
    /\ dragging[ev.target]
    /\ geomCalls = 0
    /\ x[ev.target] # InitialOrigin(ev.target)[1]
    /\ y[ev.target] # InitialOrigin(ev.target)[2]
    /\ width[ev.target] = 400
    /\ geometry[ev.target] = <<5, 5, 390, 290>>

\* C17: in Resizing a pointer-move at local pos sets width to max(100, pos.x)
\* and height to max(100, pos.y), makes one content-geometry call and leaves
\* origin and lastPointer as they were.
C17_ResizeMove ==
    [][(ev'.type = "move" /\ Resizing(ev'.target)) =>
        LET s == ev'.target
            px == ev'.pos[1]
            py == ev'.pos[2]
        IN  /\ width'[s] = (IF px > 100 THEN px ELSE 100)
            /\ height'[s] = (IF py > 100 THEN py ELSE 100)
            /\ geomCalls' = 1
            /\ x'[s] = x[s] /\ y'[s] = y[s]
            /\ drag_position'[s] = drag_position[s]]_vars

\* a surface that had been dragged and resized to (100,100) takes the size
\* (795,300) of the pointer position, not a size relative to the previous one
C17_Witness ==
    /\ ev.type = "move"
    /\ ev.pos = <<795, 300>>
    /\ Resizing(ev.target)
    /\ geomCalls = 1
    /\ width[ev.target] = 795
    /\ height[ev.target] = 300
    /\ kind[ev.target] = "image"
    /\ x[ev.target] # InitialOrigin(ev.target)[1]

(***************************************************************************)
(* Properties of the shell (specifications SpecShell and SpecVideo)        *)
(***************************************************************************)
BothSurfaces == kind["media_window"] # "none" /\ kind["browser_window"] # "none"

\* C11: with a media and a content surface, the media surface is immediately
\* below the content surface in every state, by the one stackUnder call of
\* setup, whatever pointer and key events follow; with fewer surfaces no
\* stacking call is made.
C11_MediaBelowContent ==
    IF BothSurfaces
    THEN /\ stackUnderCalls = 1
         /\ \E i \in 1..(Len(stack) - 1) :
               stack[i] = "media_window" /\ stack[i + 1] = "browser_window"
    ELSE stackUnderCalls = 0

\* both surfaces have been dragged or resized and a key has been pressed
C11_Witness ==
    /\ BothSurfaces
    /\ ev.type = "key"
    /\ x["browser_window"] # InitialOrigin("browser_window")[1]
    /\ width["media_window"] # InitialWidth
    /\ dragging["media_window"]

\* C12: every EndOfMedia notification leaves the position at 0 and the player
\* playing, however many came before; a notification of another status
\* changes neither position nor play state.
C12_LoopOnEndOfMedia ==
    [][ev'.type = "status" =>
        IF ev'.status = "EndOfMedia"
        THEN position' = 0 /\ playbackState' = "PlayingState"
        ELSE position' = position /\ playbackState' = playbackState]_vars

\* the second end of stream in succession has been answered by a restart
C12_Witness ==
    /\ ev.type = "status"
    /\ ev.status = "EndOfMedia"
    /\ endCount = 2
    /\ position = 0
    /\ playbackState = "PlayingState"

\* C13: the reload key makes one reload() call when a content surface exists
\* and none otherwise, leaving the shell open; the quit key closes the shell;
\* another key changes nothing; no key changes a surface's origin, size or
\* interaction state.
C13_Keys ==
    [][ev'.type = "key" =>
        /\ ev'.key = "Key_F5" =>
              /\ reloadCalls' = (IF kind["browser_window"] # "none" THEN 1 ELSE 0)
              /\ shell' = "running"
        /\ ev'.key = "Key_F12" => shell' = "closed" /\ reloadCalls' = 0
        /\ ev'.key \notin {"Key_F5", "Key_F12"} =>
              shell' = "running" /\ reloadCalls' = 0
        /\ UNCHANGED <<x, y, width, height, dragging, resizing>>]_vars

\* the reload key pressed in a shell without content surface, while its media
\* surface is being dragged: nothing is reloaded and the shell stays open
C13_Witness ==
    /\ ev.type = "key"
    /\ ev.key = "Key_F5"
    /\ kind["browser_window"] = "none"
    /\ reloadCalls = 0
    /\ shell = "running"
    /\ dragging["media_window"]
    /\ x["media_window"] # InitialOrigin("media_window")[1]

\* C14: a shell that held a video surface is never closed without the
\* player's stop() having been executed.
C14_StopBeforeClose ==
    (shell = "closed" /\ kind["media_window"] = "video") => stopCalls >= 1

\* C18: a pointer event delivered to one surface leaves origin, size,
\* interaction state, lastPointer and payload rectangle of the other surface
\* unchanged.
C18_OtherSurfaceUntouched ==
    [][ev'.type \in {"press", "move", "release"} =>
        \A o \in Slots \ {ev'.target} :
            /\ x'[o] = x[o] /\ y'[o] = y[o]
            /\ width'[o] = width[o] /\ height'[o] = height[o]
            /\ dragging'[o] = dragging[o] /\ resizing'[o] = resizing[o]
            /\ drag_position'[o] = drag_position[o]
            /\ geometry'[o] = geometry[o]]_vars

\* the media surface is released while the content surface, resized earlier,
\* is in the middle of a drag
C18_Witness ==
    /\ BothSurfaces
    /\ ev.type = "release"
    /\ ev.target = "media_window"
    /\ x["media_window"] # InitialOrigin("media_window")[1]
    /\ dragging["browser_window"]
    /\ width["browser_window"] = 795
    /\ x["browser_window"] # InitialOrigin("browser_window")[1]

(***************************************************************************)
(* The address list: config.ini, read_urls_from_config,                    *)
(* write_url_to_config and UrlSelectionDialog                              *)
(***************************************************************************)
NL == "\n"
\* the characters config.ini is made of
Chars == {"a", "b", " ", NL}
\* what str.strip() removes
Whitespace == {" ", NL}
\* the texts QInputDialog.getText can return: a line edit holds no newline
UrlInputs ==
    {<<>>, <<"a">>, <<"b">>, <<" ", "a">>, <<"a", " ">>, <<" ">>}
Contents(n) == UNION {[1..k -> Chars] : k \in 0..n}

\* str.strip(): leading and trailing whitespace removed
RECURSIVE lstrip(_)
lstrip(s) ==
    IF s # <<>> /\ Head(s) \in Whitespace THEN lstrip(Tail(s)) ELSE s

RECURSIVE rstrip(_)
rstrip(s) ==
    IF s # <<>> /\ s[Len(s)] \in Whitespace
    THEN rstrip(SubSeq(s, 1, Len(s) - 1))
    ELSE s

\* a strip that leaves trailing whitespace in place
strip_left_only(s) == lstrip(s)

strip(s) == rstrip(lstrip(s))

\* "for line in file": each line keeps its "\n"; a last line without one is
\* still a line
RECURSIVE FileLines(_, _, _)
FileLines(content, current, lines) ==
    IF content = <<>>
    THEN IF current = <<>> THEN lines ELSE Append(lines, current)
    ELSE IF Head(content) = NL
         THEN FileLines(Tail(content), <<>>, Append(lines, Append(current, NL)))
         ELSE FileLines(Tail(content), Append(current, Head(content)), lines)

\* a read loop that does not consult the seen set
RECURSIVE ReadLoop_no_seen(_, _, _)
ReadLoop_no_seen(lines, result, seen) ==
    IF lines = <<>>
    THEN result
    ELSE LET url == strip(Head(lines))
         IN  IF url # <<>>
             THEN ReadLoop_no_seen(Tail(lines), Append(result, url), seen \cup {url})
             ELSE ReadLoop_no_seen(Tail(lines), result, seen)

\* the loop body of read_urls_from_config, over the lines still to read
RECURSIVE ReadLoop(_, _, _)
ReadLoop(lines, result, seen) ==
    IF lines = <<>>
    THEN result
    ELSE LET url == strip(Head(lines))
         IN  IF url # <<>> /\ url \notin seen
             THEN ReadLoop(Tail(lines), Append(result, url), seen \cup {url})
             ELSE ReadLoop(Tail(lines), result, seen)

read_urls_from_config(f) ==
    IF f.exists
    THEN ReadLoop(FileLines(f.content, <<>>, <<>>), <<>>, {})
    ELSE <<>>

\* a write whose membership test is inverted
write_url_to_config_inverted(f, url) ==
    IF url \in Range(read_urls_from_config(f))
    THEN [exists |-> TRUE, content |-> f.content \o url \o <<NL>>]
    ELSE f

\* open(CONFIG_FILE, "a") creates the file when it is missing
write_url_to_config(f, url) ==
    IF url \notin Range(read_urls_from_config(f))
    THEN [exists |-> TRUE, content |-> f.content \o url \o <<NL>>]
    ELSE f

\* UrlSelectionDialog.setup_ui
setup_ui ==
    /\ dialog = "closed"
    /\ dialog' = "open"
    /\ urls' = read_urls_from_config(config)
    /\ url_combobox' = read_urls_from_config(config)
    /\ UNCHANGED <<config, addLog>>
    /\ UNCHANGED surfaceVars
    /\ UNCHANGED shellVars

\* UrlSelectionDialog.add_url, QInputDialog.getText answering (new_url, ok)
add_url(new_url, ok) ==
    /\ dialog = "open"
    /\ Len(addLog) < MaxAdds
    /\ addLog' = Append(addLog, <<new_url, ok>>)
    /\ IF ok /\ new_url # <<>>
       THEN /\ config' = write_url_to_config(config, new_url)
            /\ IF new_url \notin Range(urls)
               THEN /\ urls' = Append(urls, new_url)
                    /\ url_combobox' = Append(url_combobox, new_url)
               ELSE UNCHANGED <<urls, url_combobox>>
       ELSE UNCHANGED <<config, urls, url_combobox>>
    /\ UNCHANGED dialog
    /\ UNCHANGED surfaceVars
    /\ UNCHANGED shellVars

\* the answers of QInputDialog.getText: a text with OK, or a cancel, which
\* returns the empty text
GetTextAnswers == {<<u, TRUE>> : u \in UrlInputs} \cup {<<<<>>, FALSE>>}

\* no surface: the store is looked at on its own
NoSurface == [s \in Slots |-> "none"]

InitStore ==
    /\ ConstructSurfaces(NoSurface)
    /\ config \in {[exists |-> FALSE, content |-> <<>>]}
                  \cup {[exists |-> TRUE, content |-> c] : c \in Contents(InitFileLen)}
    /\ urls = <<>>
    /\ url_combobox = <<>>
    /\ dialog = "closed"
    /\ addLog = <<>>

NextStore ==
    \/ setup_ui
    \/ \E a \in GetTextAnswers : add_url(a[1], a[2])

SpecStore == InitStore /\ [][NextStore]_vars

\* read_urls_from_config applied to every content up to MaxContentLen
InitRead ==
    /\ ConstructSurfaces(NoSurface)
    /\ config \in {[exists |-> FALSE, content |-> <<>>]}
                  \cup {[exists |-> TRUE, content |-> c] : c \in Contents(MaxContentLen)}
    /\ urls = <<>>
    /\ url_combobox = <<>>
    /\ dialog = "closed"
    /\ addLog = <<>>

NextRead == setup_ui

SpecRead == InitRead /\ [][NextRead]_vars

(***************************************************************************)
(* Properties of the address list (specifications SpecStore and SpecRead)  *)
(***************************************************************************)
SetMin(S) == CHOOSE m \in S : \A n \in S : m <= n
SetMax(S) == CHOOSE m \in S : \A n \in S : m >= n

\* the positions of a content at which a line starts
LineStarts(c) ==
    IF c = <<>> THEN {} ELSE {1} \cup {i + 1 : i \in {j \in 1..(Len(c) - 1) : c[j] = "\n"}}

\* the line that starts at position p, without its line end
LineAt(c, p) ==
    LET ends == {j \in p..Len(c) : c[j] = "\n"}
    IN  IF ends = {} THEN SubSeq(c, p, Len(c)) ELSE SubSeq(c, p, SetMin(ends) - 1)

\* a text from its first to its last character that is not white space
Trimmed(s) ==
    LET solid == {i \in 1..Len(s) : s[i] \notin {" ", "\n"}}
    IN  IF solid = {} THEN <<>> ELSE SubSeq(s, SetMin(solid), SetMax(solid))

\* where the first line that trims to t starts
FirstStart(c, t) == SetMin({p \in LineStarts(c) : Trimmed(LineAt(c, p)) = t})

\* the distinct non-blank trimmed lines that start before position p
SeenBefore(c, p) ==
    {Trimmed(LineAt(c, q)) : q \in {q \in LineStarts(c) : q < p}} \ {<<>>}

\* r lists the non-blank trimmed lines of f, each once, in the order of their
\* first lines
IsListingOf(r, f) ==
    IF f.exists
    THEN /\ Range(r) = {Trimmed(LineAt(f.content, p)) : p \in LineStarts(f.content)} \ {<<>>}
         /\ \A i, j \in 1..Len(r) :
               i < j => FirstStart(f.content, r[i]) < FirstStart(f.content, r[j])
    ELSE r = <<>>

listAll == read_urls_from_config(config)
Occurrences(t, r) == Cardinality({i \in 1..Len(r) : r[i] = t})
IndexOf(t, r) == SetMin({i \in 1..Len(r) : r[i] = t})
NoDuplicate(r) == \A i, j \in 1..Len(r) : i # j => r[i] # r[j]
NoBlank(r) == \A i \in 1..Len(r) : Trimmed(r[i]) # <<>>
\* the last two add_url calls were both given the text a, with OK
AddedTwice(a) ==
    /\ Len(addLog) >= 2
    /\ addLog[Len(addLog)] = <<a, TRUE>>
    /\ addLog[Len(addLog) - 1] = <<a, TRUE>>

C9_ListAllIsListing ==
    dialog = "open" => IsListingOf(urls, config)

\* the lines [a, blank, a, b] have been read as [a, b]
C9_Witness ==
    /\ dialog = "open"
    /\ config.exists
    /\ config.content = <<"a", "\n", "\n", "a", "\n", "b", "\n">>
    /\ urls = << <<"a">>, <<"b">> >>

\* the address is in the in-memory list or in listAll()
Present(u) == u \in Range(urls) \/ u \in Range(listAll)

\* C10: add of an empty or already present address changes neither the file
\* nor the in-memory list; add of any other address appends it once to the
\* file and once to the in-memory list.
C10_AddNoOpOrAppendOnce ==
    [][\A a \in GetTextAnswers :
          addLog' = Append(addLog, a) =>
              IF a[1] = <<>> \/ Present(a[1])
              THEN UNCHANGED <<config, urls>>
              ELSE /\ config'.exists
                   /\ config'.content = config.content \o a[1] \o <<"\n">>
                   /\ urls' = Append(urls, a[1])]_vars

IsPrefix(a, b) == Len(a) <= Len(b) /\ SubSeq(b, 1, Len(a)) = a

\* C19: address entries are never removed or reordered: over every add the
\* file content before is a prefix of the content after, and listAll() before
\* is a prefix of listAll() after.
C19_AppendOnly ==
    [][addLog' # addLog =>
        /\ IsPrefix(config.content, config'.content)
        /\ IsPrefix(read_urls_from_config(config), read_urls_from_config(config'))]_vars

\* C20: once the dialog is open, after any adds, the in-memory list and the
\* combo box hold what listAll() returns for the file at that moment.
C20_MemoryMatchesFile ==
    dialog = "open" =>
        /\ urls = read_urls_from_config(config)
        /\ url_combobox = urls

====
